---------------------------- MODULE Spec2Model ----------------------------
(***************************************************************************)
(* Model of utils/add_xfm_intent.py: a command-line filter that loads a    *)
(* NIfTI volume with fsl.data.image.Image, assigns its intent to 2006 and  *)
(* saves it to the output path.                                            *)
(*                                                                         *)
(* The state is the file system the process sees, the command line, and    *)
(* the locals of __main__ (args, img) with the position of the process.    *)
(* A volume file is its header and its data payload.  The header keeps the *)
(* intent triple of the NIfTI header (intent_code, intent_name, intent_p1) *)
(* and one field outside the intent (datatype).  Volumes are NIfTI files   *)
(* (the script's "-i" help: "Input nifti file"), i.e. files whose header   *)
(* has an intent_code field.                                               *)
(*                                                                         *)
(* The three statements of __main__ are calls into fslpy; each is modelled *)
(* by what the call does:                                                  *)
(*   Image(path)     raises when the path is missing or is no volume;      *)
(*   img.intent = v  is fslpy's Nifti.intent setter: when v differs from   *)
(*                   the current code it calls nibabel's                   *)
(*                   header.set_intent(v, allow_unknown=True), which       *)
(*                   stores the code and stores the defaults params=()     *)
(*                   and name='' into intent_p1..3 and intent_name;        *)
(*   img.save(path)  writes header and data to the path, and raises when   *)
(*                   the path cannot be written.                           *)
(* An exception is not caught anywhere, so the interpreter exits with 1;   *)
(* argparse exits with 2 on a usage error.                                 *)
(***************************************************************************)
EXTENDS Integers, Sequences, FiniteSets, TLC

(* ------------------------------ bounds --------------------------------- *)
\* number of invocations of the script in one behaviour
MaxRuns == 2
\* intent_p1 ranges over 0..MaxParam
MaxParam == 1
\* the data payload ranges over 0..MaxData (the payload's bits, as a number)
MaxData == 1

(* ----------------------------- constants ------------------------------- *)
\* line 36: img.intent = 2006
FnirtDisplacementIntent == 2006

\* line 24: default='out.nii.gz'
DefaultOutput_Fixed == "fixed.nii.gz"
DefaultOutput == "out.nii.gz"

\* exit status when __main__ runs to its end
SuccessExit == 0

\* exit status of argparse's parser.error (required option missing)
ArgparseExit_Zero == SuccessExit
ArgparseExit == 2

\* exit status of the interpreter on an uncaught exception
UncaughtExit_Zero == SuccessExit
UncaughtExit == 1

(* ------------------------------ universe ------------------------------- *)
InputPath == "subject01_warp.nii.gz"
ReadOnlyPath == "ro/fixed.nii.gz"
Paths == {InputPath, "out.nii.gz", "fixed.nii.gz", ReadOnlyPath}

\* an option that is not on the command line
NoOpt == "<omitted>"
Options == Paths \cup {NoOpt}

\* intent codes: none, vector (what ANTs writes for a warp), FNIRT displacement
IntentCodes == {0, 1007, FnirtDisplacementIntent}
IntentNames == {"", "warp"}
\* NIfTI datatype codes: int16, float32
Datatypes == {4, 16}

Headers == [intent_code : IntentCodes, intent_name : IntentNames,
            intent_p1 : 0..MaxParam, datatype : Datatypes]

Volumes == [kind : {"volume"}, hdr : Headers, data : 0..MaxData]
Absent == [kind |-> "absent"]
Garbage == [kind |-> "garbage"]
FileContents == Volumes \cup {Absent, Garbage}

NoImage == [kind |-> "none"]
NoArgs == [i |-> NoOpt, o |-> NoOpt]

\* a volume already on disk before the first run
OldVolume == [kind |-> "volume",
              hdr |-> [intent_code |-> 1007, intent_name |-> "warp",
                       intent_p1 |-> MaxParam, datatype |-> 16],
              data |-> MaxData]

VARIABLES
    fs,        \* the file system: path -> content
    argv,      \* the command line of the running process: [i, o]
    args,      \* __main__'s args (argparse namespace)
    img,       \* __main__'s img
    pc,        \* position of the process
    exit,      \* <<>> while running, <<status>> once exited
    runs,      \* invocations so far
    fs0,       \* history: the file system when the process started
    loaded,    \* history: content of the input path when Image() read it
    nLoad,     \* history: Image() calls of this invocation
    nSave,     \* history: save() calls of this invocation
    patched,   \* history: paths whose content a successful run wrote
    fromPatched \* history: the input path was in patched when it was read

vars == <<fs, argv, args, img, pc, exit, runs, fs0, loaded, nLoad, nSave,
          patched, fromPatched>>

(* ------------------------------ functions ------------------------------ *)
\* get_arguments: -i is required, -o defaults to 'out.nii.gz'
get_arguments(a) ==
    [ok |-> a.i # NoOpt,
     i |-> a.i,
     o |-> IF a.o = NoOpt THEN DefaultOutput ELSE a.o]

\* Image(path) succeeds exactly on an existing, well-formed volume
CanLoad(c) == c.kind = "volume"

\* the image Image(path) builds from the file: its header and its data
Image(c) == [kind |-> "image", hdr |-> c.hdr, data |-> c.data]

\* nibabel header.set_intent(code, params=(), name='', allow_unknown=True)
set_intent_CodeOnly(h, code) == [h EXCEPT !.intent_code = code]
set_intent(h, code) ==
    [h EXCEPT !.intent_code = code, !.intent_name = "", !.intent_p1 = 0]

\* fslpy Nifti.intent setter: only when the value differs from the current one
IntentSetter_NoOp(im, val) == im
IntentSetter(im, val) ==
    IF val # im.hdr.intent_code
    THEN [im EXCEPT !.hdr = set_intent(im.hdr, val)]
    ELSE im

\* the output directory of the path is writable
Writable_Always(p) == TRUE
Writable(p) == p # ReadOnlyPath

\* what img.save serialises: the image's header and data
Serialise_Rescaled(im) ==
    [kind |-> "volume", hdr |-> im.hdr, data |-> (im.data + 1) % (MaxData + 1)]
Serialise_ZeroData(im) ==
    [kind |-> "volume", hdr |-> im.hdr, data |-> 0]
Serialise(im) == [kind |-> "volume", hdr |-> im.hdr, data |-> im.data]

\* img.save(path): the file at path is created or overwritten
WriteFile_AlsoDefault(f, p, c) == [f EXCEPT ![p] = c, ![DefaultOutput] = c]
WriteFile(f, p, c) == [f EXCEPT ![p] = c]

\* the statement that follows a successful Image(): line 36, then line 39
PcAfterLoad_SkipMutate == "save"
PcAfterLoad == "mutate"

(* ------------------------------- actions ------------------------------- *)
\* the file system before the first run: anything at the input path, nothing
\* or an older volume at out.nii.gz, a volume in the unwritable directory
InitialFs(c, old) ==
    [p \in Paths |-> IF p = InputPath THEN c
                     ELSE IF p = "out.nii.gz" THEN old
                     ELSE IF p = ReadOnlyPath THEN OldVolume
                     ELSE Absent]

Init ==
    /\ \E c \in FileContents, old \in {Absent, OldVolume} : fs = InitialFs(c, old)
    /\ argv = NoArgs
    /\ args = NoArgs
    /\ img = NoImage
    /\ pc = "shell"
    /\ exit = <<>>
    /\ runs = 0
    /\ fs0 = fs
    /\ loaded = Absent
    /\ nLoad = 0
    /\ nSave = 0
    /\ patched = {}
    /\ fromPatched = FALSE

\* the invoker starts the script with some command line
Exec(a) ==
    /\ pc \in {"shell", "exited"}
    /\ runs < MaxRuns
    /\ argv' = a
    /\ args' = NoArgs
    /\ img' = NoImage
    /\ pc' = "main"
    /\ exit' = <<>>
    /\ runs' = runs + 1
    /\ fs0' = fs
    /\ loaded' = Absent
    /\ nLoad' = 0
    /\ nSave' = 0
    /\ fromPatched' = FALSE
    /\ UNCHANGED <<fs, patched>>

\* line 31: args = get_arguments()
GetArguments ==
    /\ pc = "main"
    /\ LET r == get_arguments(argv) IN
         IF r.ok
         THEN /\ args' = [i |-> r.i, o |-> r.o]
              /\ pc' = "load"
              /\ exit' = exit
         ELSE /\ args' = args
              /\ pc' = "exited"
              /\ exit' = <<ArgparseExit>>
    /\ UNCHANGED <<fs, argv, img, runs, fs0, loaded, nLoad, nSave, patched,
                   fromPatched>>

\* line 33: img = fslimage.Image(args.i)
LoadImage ==
    /\ pc = "load"
    /\ nLoad' = nLoad + 1
    /\ loaded' = fs[args.i]
    /\ fromPatched' = (args.i \in patched)
    /\ IF CanLoad(fs[args.i])
       THEN /\ img' = Image(fs[args.i])
            /\ pc' = PcAfterLoad
            /\ exit' = exit
       ELSE /\ img' = img
            /\ pc' = "exited"
            /\ exit' = <<UncaughtExit>>
    /\ UNCHANGED <<fs, argv, args, runs, fs0, nSave, patched>>

\* line 36: img.intent = 2006
SetIntent ==
    /\ pc = "mutate"
    /\ img' = IntentSetter(img, FnirtDisplacementIntent)
    /\ pc' = "save"
    /\ UNCHANGED <<fs, argv, args, exit, runs, fs0, loaded, nLoad, nSave,
                   patched, fromPatched>>

\* line 39: img.save(args.o)
SaveImage ==
    /\ pc = "save"
    /\ nSave' = nSave + 1
    /\ IF Writable(args.o)
       THEN /\ fs' = WriteFile(fs, args.o, Serialise(img))
            /\ patched' = patched \cup {args.o}
            /\ exit' = <<SuccessExit>>
       ELSE /\ fs' = fs
            /\ patched' = patched
            /\ exit' = <<UncaughtExit>>
    /\ pc' = "exited"
    /\ UNCHANGED <<argv, args, img, runs, fs0, loaded, nLoad, fromPatched>>

Next ==
    \/ \E a \in [i : Options, o : Options] : Exec(a)
    \/ GetArguments
    \/ LoadImage
    \/ SetIntent
    \/ SaveImage

Spec == Init /\ [][Next]_vars

(* ------------------------------ vocabulary ----------------------------- *)
Exited == pc = "exited"
Succeeded == Exited /\ exit = <<SuccessExit>>
Failed == Exited /\ exit # <<SuccessExit>>
Parsed == args # NoArgs

(* ------------------------------- claims -------------------------------- *)
\* the output path of the running invocation holds a volume
OutputIsVolume == Parsed /\ fs[args.o].kind = "volume"

\* C1: after a successful run the file at the output path has intent code
\* 2006, whatever intent code the input had.
C1_OutputIntentIsConstant ==
    Succeeded =>
        /\ OutputIsVolume
        /\ fs[args.o].hdr.intent_code = 2006

C1_Witness ==
    /\ Succeeded
    /\ loaded.hdr.intent_code = 1007
    /\ fs[args.o].hdr.intent_code = 2006

\* C2: after a successful run the data payload at the output path equals the
\* data payload that was read from the input path.
C2_DataCarriedOver ==
    Succeeded =>
        /\ OutputIsVolume
        /\ fs[args.o].data = loaded.data

C2_Witness ==
    /\ Succeeded
    /\ args.o # args.i
    /\ fs0[args.o] = Absent
    /\ loaded.data = MaxData
    /\ fs[args.o].data = MaxData

InputMissing == Parsed /\ nLoad = 1 /\ loaded = Absent

\* C4: a run whose input path does not exist ends with a non-zero status,
\* attempts no save, and leaves the output path as it was before the run.
C4_MissingInputFails ==
    (Exited /\ InputMissing) =>
        /\ Len(exit) = 1
        /\ exit[1] # 0
        /\ nSave = 0
        /\ fs[args.o] = fs0[args.o]

C4_Witness ==
    /\ Exited
    /\ InputMissing
    /\ fs0[args.o] = Absent
    /\ fs[args.o] = Absent
    /\ exit = <<1>>

\* C5: a run with a valid input whose output path lies in the unwritable
\* directory ends with a non-zero status.
C5_UnwritableOutputFails ==
    (Exited /\ Parsed /\ CanLoad(loaded) /\ args.o = ReadOnlyPath) =>
        /\ Len(exit) = 1
        /\ exit[1] # 0

C5_Witness ==
    /\ Exited
    /\ CanLoad(loaded)
    /\ args.o = ReadOnlyPath
    /\ nSave = 1
    /\ exit = <<1>>
    /\ fs = fs0

\* C6: a successful run whose input is the output of an earlier successful
\* run writes an output identical to that input (header and data).
C6_Idempotent ==
    (Succeeded /\ fromPatched) => fs[args.o] = loaded

C6_Witness ==
    /\ Succeeded
    /\ fromPatched
    /\ args.o # args.i
    /\ fs0[args.o] # loaded
    /\ fs[args.o] = loaded
    /\ loaded.hdr.intent_code = 2006

\* no step of the invocation raised: options parsed, input loaded, output saved
NoError ==
    /\ Parsed
    /\ nLoad = 1
    /\ CanLoad(loaded)
    /\ nSave = 1
    /\ args.o # ReadOnlyPath

\* C7: the exit status is 0 exactly when no step failed; a missing or
\* malformed input and an unwritable output give a non-zero status; Image()
\* and save() are each called at most once, and nothing runs after a failure.
C7_ExitStatus ==
    /\ nLoad <= 1
    /\ nSave <= 1
    /\ Exited =>
          /\ Len(exit) = 1
          /\ (exit[1] = 0) <=> NoError
          /\ (nLoad = 1 /\ ~CanLoad(loaded)) => (exit[1] # 0 /\ nSave = 0)
          /\ (nSave = 1 /\ args.o = ReadOnlyPath) => exit[1] # 0
    /\ ~Exited => exit = <<>>

C7_Witness ==
    /\ Failed
    /\ nLoad = 1
    /\ loaded = Garbage
    /\ nSave = 0
    /\ img = NoImage

\* every path but p holds what it held when the process started
OnlyChanged(p) == \A q \in Paths \ {p} : fs[q] = fs0[q]

\* C8: without -i the run fails before any file is read or written; -o may
\* be omitted, and then a successful run writes out.nii.gz; with -o a
\* successful run writes exactly the path given.
C8_Options ==
    /\ (argv.i = NoOpt /\ pc \notin {"shell", "main"}) =>
          /\ ~Parsed
          /\ nLoad = 0
          /\ nSave = 0
          /\ fs = fs0
          /\ Failed
    /\ (argv.i # NoOpt /\ pc \notin {"shell", "main"}) =>
          /\ Parsed
          /\ args.i = argv.i
    /\ (Succeeded /\ argv.o = NoOpt) =>
          /\ args.o = "out.nii.gz"
          /\ fs["out.nii.gz"] = Serialise(img)
          /\ OnlyChanged("out.nii.gz")
    /\ (Succeeded /\ argv.o # NoOpt) =>
          /\ args.o = argv.o
          /\ fs[argv.o] = Serialise(img)
          /\ OnlyChanged(argv.o)

C8_Witness ==
    /\ Succeeded
    /\ argv.o = NoOpt
    /\ fs0["out.nii.gz"] = Absent
    /\ fs["out.nii.gz"].kind = "volume"

\* C9: at every point of a run, every path other than the output path holds
\* what it held when the process started; in particular the input path,
\* when it is not the output path.
C9_OnlyOutputPathChanges ==
    /\ \A p \in Paths : fs[p] # fs0[p] => (Parsed /\ p = args.o)
    /\ (Parsed /\ args.i # args.o) => fs[args.i] = fs0[args.i]
    /\ Failed => fs = fs0

C9_Witness ==
    /\ Succeeded
    /\ args.i # args.o
    /\ fs0[args.o] = OldVolume
    /\ fs[args.o] # fs0[args.o]
    /\ fs[args.i] = fs0[args.i]

\* C10: a step that calls save() or changes the file system is taken at the
\* save position, after Image() succeeded and with the image's intent code
\* already 2006; what it writes carries intent code 2006; it changes at most
\* the output path.
C10_WriteAfterLoadAndMutate ==
    [][(nSave' > nSave \/ fs' # fs) =>
          /\ pc = "save"
          /\ nLoad = 1
          /\ CanLoad(loaded)
          /\ img.kind = "image"
          /\ img.hdr.intent_code = 2006
          /\ fs' # fs => fs'[args.o].hdr.intent_code = 2006]_vars

C10_Witness ==
    /\ pc = "save"
    /\ nSave = 0
    /\ loaded.kind = "volume"
    /\ loaded.hdr.intent_code = 0
    /\ img.hdr.intent_code = 2006

=============================================================================
